---- MODULE Spec2Model ----
(***************************************************************************)
(* The verification-session ledger of src/service/ShuftiProKyc.js:         *)
(* createVerificationSession, handleWebhook, updateRecordStatus,           *)
(* isUserValidated, getRecordByReference, over the key-value store         *)
(* contract (putItem, getItem, query) and the in-process rate window.      *)
(*                                                                         *)
(* Spec: the four handlers that decide and write, one call at a time.      *)
(* SpecSig: the signature codec.  SpecRecord: the ledger of one user with  *)
(* getRecordByReference.  SpecConc: two callers side by side.  SpecLive:   *)
(* the provider exchange in its stages, with fairness.                     *)
(*                                                                         *)
(* Every handler is an async function.  One action of the model is one     *)
(* store operation (or the provider's answer) together with the            *)
(* synchronous code that runs after it up to the next await; the code      *)
(* before a handler's first await belongs to its Begin action.             *)
(*                                                                         *)
(* All JavaScript values of the rows are strings.  Undef and Null stand    *)
(* for undefined and null; ISO(t) is the ISO-8601 text of clock value t.   *)
(*                                                                         *)
(* Time passes between any two reads of the clock: a step that reads it    *)
(* (Date.now(), new Date()) gets any value from the last one read on.      *)
(*                                                                         *)
(* everAccepted, scenario, lastWritten and recent are history variables:   *)
(* no handler reads them.                                                  *)
(***************************************************************************)
EXTENDS Integers, Sequences, FiniteSets, TLC

(***************************************************************************)
(* Bounds of the model.  MaxTime: the last clock value, one unit being one *)
(* millisecond; MaxRand: the largest value of Math.floor(Math.random() *   *)
(* 100000); MaxRows: the rows the table holds at most; MaxAccounted: the   *)
(* entries LOCAL_REQUEST_TIMESTAMPS holds at most; DigestLen: the          *)
(* characters of a hex digest (64 in the program).  Limit,                 *)
(* PER_MINUTE_LIMIT and WindowMs stand for the program's 50, 60 and 60000: *)
(* they are scaled down so that a partition larger than the query cap and  *)
(* a breach of the rate threshold are reachable.                           *)
(***************************************************************************)
MaxTime == 3

MaxRand == 0

MaxRows == 5

MaxAccounted == 2

DigestLen == 2

Limit == 2

PER_MINUTE_LIMIT == 1

WindowMs == 0

Procs == {1, 2}

Undef == "<undefined>"

Null == "<null>"

\* ------------------------------------------------------------------------
\* JavaScript value helpers
\* ------------------------------------------------------------------------

\* truthiness of a string-or-absent value
Truthy(x) == x \notin {Undef, Null, ""}

\* a || b
OrElse(a, b) == IF Truthy(a) THEN a ELSE b

\* a ?? b
Nullish(a, b) == IF a \in {Undef, Null} THEN b ELSE a

\* `${x}` inside a template literal
Str(x) == IF x = Undef THEN "undefined" ELSE IF x = Null THEN "null" ELSE x

\* new Date(t).toISOString()
ISO(t) == "T" \o ToString(t)

Reverse(s) == [i \in 1..Len(s) |-> s[Len(s) + 1 - i]]

RECURSIVE Orderings(_)
Orderings(S) ==
    IF S = {} THEN {<<>>}
    ELSE UNION {{<<x>> \o s : s \in Orderings(S \ {x})} : x \in S}

\* ------------------------------------------------------------------------
\* Events
\* ------------------------------------------------------------------------
REQUEST_PENDING == "request.pending"

REQUEST_INVALID == "request.invalid"

REQUEST_RECEIVED == "request.received"

REVIEW_PENDING == "review.pending"

VERIFICATION_ACCEPTED == "verification.accepted"

VERIFICATION_DECLINED == "verification.declined"

VERIFICATION_STATUS_CHANGED == "verification.status.changed"

ACTIVE_EVENTS ==
    {REQUEST_PENDING, REQUEST_RECEIVED, REVIEW_PENDING, VERIFICATION_STATUS_CHANGED}

\* ------------------------------------------------------------------------
\* Configuration
\* ------------------------------------------------------------------------
\* the module-level CONFIG as configure() has left it: the options the model
\* lets vary
VARIABLE CONFIG

SECRET_KEY == CONFIG.SECRET_KEY

DEFAULT_LANGUAGE == "en"

\* CONFIG.LOCALE_MAP[key] on the locales the model uses (undefined elsewhere)
LOCALE_MAP(key) ==
    CASE key = "en" -> "en"
      [] key = "en-AU" -> "en"
      [] key = "fr" -> "fr"
      [] OTHER -> Undef

\* key.split("-")[0] on the locales the model uses
PrimarySubtag(key) ==
    CASE key = "en-AU" -> "en"
      [] key = "fr-CA" -> "fr"
      [] OTHER -> key

normalizeLocaleToLanguage(appLocale) ==
    IF ~Truthy(appLocale) THEN DEFAULT_LANGUAGE
    ELSE OrElse(LOCALE_MAP(appLocale),
                OrElse(LOCALE_MAP(PrimarySubtag(appLocale)), DEFAULT_LANGUAGE))

\* ------------------------------------------------------------------------
\* Rows of the table.  One record shape for all row types; a field a row
\* type does not carry is Undef.
\* ------------------------------------------------------------------------
BlankRow ==
    [pk |-> Undef, sk |-> Undef, ppk |-> Undef, type |-> Undef, userId |-> Undef,
     reference |-> Undef, event |-> Undef, status |-> Undef, lastEvent |-> Undef,
     lastEventAt |-> Undef, verificationUrl |-> Undef, language |-> Undef,
     created_at |-> Undef, newStatus |-> Undef]

\* the value null where a row is expected (getItem miss, empty query)
NullRow == [BlankRow EXCEPT !.type = Null]

UserPk(userId) == "user_" \o Str(userId)

MetaPk(reference) == "meta_" \o Str(reference)

\* ------------------------------------------------------------------------
\* The store: the rows of table CONFIG.TABLE, at most one per (pk, sk)
\* ------------------------------------------------------------------------

\* putItem: upsert by the item's own pk|sk
PutItem(tbl, item) ==
    {r \in tbl : ~(r.pk = item.pk /\ r.sk = item.sk)} \cup {item}

\* getItem: the row of that key, or null
GetItem(tbl, pk, sk) ==
    IF \E r \in tbl : r.pk = pk /\ r.sk = sk
    THEN CHOOSE r \in tbl : r.pk = pk /\ r.sk = sk
    ELSE NullRow

\* how a put may end (section 6 of the specification: success or failure)
PutOutcomes == {"stored", "failed"}

\* the batches a capped query may return out of the matching rows
Batches(S, lim) ==
    IF lim = 0 \/ Cardinality(S) <= lim THEN {S}
    ELSE {B \in SUBSET S : Cardinality(B) = lim}

\* query on the primary index: rows of partition pk, capped, in no promised order
QueryPk(tbl, pk, lim) ==
    UNION {Orderings(B) : B \in Batches({r \in tbl : r.pk = pk}, lim)}

\* query on the secondary index GSI1: rows with ppk = ref, in no promised order
QueryGsi(tbl, ref) ==
    Orderings({r \in tbl : r.ppk = Str(ref)})

\* ------------------------------------------------------------------------
\* Raw bodies, JSON.parse and the authenticity tag
\* ------------------------------------------------------------------------

\* A raw body by its content: form is what the text is (absent, the empty
\* string, text that is no JSON, the JSON null, a JSON scalar, a JSON object);
\* the other fields are the object's members (Undef: member absent).
BlankBody ==
    [form |-> "undefined", reference |-> Undef, event |-> Undef, user_id |-> Undef,
     verification_url |-> Undef]

ObjectBody(reference, event, user_id, url) ==
    [form |-> "object", reference |-> reference, event |-> event, user_id |-> user_id,
     verification_url |-> url]

\* !rawBodyString
BodyFalsy(body) == body.form \in {"undefined", "empty"}

\* JSON.parse(raw) raises a SyntaxError on these
JSONParseThrows(body) == body.form \in {"undefined", "empty", "not_json"}

\* payload?.member of the parsed value
Member(payload, name) ==
    IF payload.form = "object" THEN payload[name] ELSE Undef

\* crypto.createHash("sha256").update(secret).digest("hex"), collision-free
Sha256Secret(secret) == "sha256(" \o secret \o ")"

\* One character of a header value: a white-space character, some other
\* character, or the at-th character of the hex digest of body + inner.
Space == [ch |-> "space", body |-> BlankBody, inner |-> "", at |-> 0]

OtherChar == [ch |-> "other", body |-> BlankBody, inner |-> "", at |-> 0]

HexChar(body, inner, at) == [ch |-> "hex", body |-> body, inner |-> inner, at |-> at]

\* crypto.createHash("sha256").update(String(raw) + inner).digest("hex"): the
\* text of the digest, collision-free (two digests share no character)
Sha256Hex(raw, inner) == [i \in 1..DigestLen |-> HexChar(raw, inner, i)]

\* A header value: absent (undefined or null), or a string, by its characters
BlankTag == [form |-> "undefined", text |-> <<>>]

EmptyTag == [form |-> "string", text |-> <<>>]

WrongTag == [form |-> "string", text |-> <<OtherChar, OtherChar>>]

\* signatureFor(raw, secret)
signatureFor(raw, secret) ==
    [form |-> "string", text |-> Sha256Hex(raw, Sha256Secret(secret))]

\* text.trim()
RECURSIVE TrimStart(_)
TrimStart(text) ==
    IF Len(text) > 0 /\ Head(text) = Space THEN TrimStart(Tail(text)) ELSE text

TrimText(text) == Reverse(TrimStart(Reverse(TrimStart(text))))

\* String(tag).trim() of a tag that is a string
Trim(tag) == [tag EXCEPT !.text = TrimText(@)]

Padded(tag) == [tag EXCEPT !.text = <<Space>> \o @ \o <<Space>>]

\* !signatureHeaderValue
TagFalsy(tag) == tag.form = "undefined" \/ tag.text = <<>>

\* verifyShuftiSignature without the comparison: a tag on a body passes
verifyPresenceOnly(rawBodyString, signatureHeaderValue) ==
    ~(BodyFalsy(rawBodyString) \/ TagFalsy(signatureHeaderValue))

\* verifyShuftiSignature hashing the secret of the unconfigured CONFIG, ""
verifyWithDefaultSecret(rawBodyString, signatureHeaderValue) ==
    IF BodyFalsy(rawBodyString) \/ TagFalsy(signatureHeaderValue) THEN FALSE
    ELSE LET inner == Sha256Secret("")
             computed == Sha256Hex(rawBodyString, inner)
         IN  computed = Trim(signatureHeaderValue).text

\* verifyShuftiSignature without its first line
verifyWithoutPresenceCheck(rawBodyString, signatureHeaderValue) ==
    LET inner == Sha256Secret(SECRET_KEY)
        computed == Sha256Hex(rawBodyString, inner)
    IN  computed = Trim(signatureHeaderValue).text

verifyShuftiSignature(rawBodyString, signatureHeaderValue) ==
    IF BodyFalsy(rawBodyString) \/ TagFalsy(signatureHeaderValue) THEN FALSE
    ELSE LET inner == Sha256Secret(SECRET_KEY)
             computed == Sha256Hex(rawBodyString, inner)
         IN  computed = Trim(signatureHeaderValue).text

\* ------------------------------------------------------------------------
\* Helpers of the service
\* ------------------------------------------------------------------------
generateReference(t, rnd) == "ref-" \o ToString(t) \o "-" \o ToString(rnd)

\* pickMeta: the first row of type meta in the list, else null
pickMeta(items) ==
    IF \E i \in 1..Len(items) : items[i].type = "meta"
    THEN items[CHOOSE i \in 1..Len(items) :
                 /\ items[i].type = "meta"
                 /\ \A j \in 1..(i - 1) : items[j].type # "meta"]
    ELSE NullRow

\* pickMeta(latestByRef) || latestByRef[0] || null, latestByRef = byRef reversed
ResolveMeta(byRef) ==
    LET latestByRef == Reverse(byRef)
        picked == pickMeta(latestByRef)
    IN  IF picked # NullRow THEN picked
        ELSE IF Len(latestByRef) > 0 THEN latestByRef[1]
        ELSE NullRow

\* the values meta may take for a reference, over the orders of the index query
ResolvedMetas(tbl, ref) == {ResolveMeta(byRef) : byRef \in QueryGsi(tbl, ref)}

\* meta?.status || item.event || "unknown"
ResolveStatus(meta, item) == OrElse(meta.status, OrElse(item.event, "unknown"))

\* meta?.verificationUrl ?? item.verificationUrl ?? null
ResolveUrl(meta, item) ==
    Nullish(meta.verificationUrl, Nullish(item.verificationUrl, Null))

\* ------------------------------------------------------------------------
\* The rows the service writes
\* ------------------------------------------------------------------------

\* createVerificationSession: the attempt on the user's timeline
RequestRow(userId, reference, event, verificationUrl, language, created_at) ==
    [BlankRow EXCEPT !.pk = UserPk(userId), !.sk = created_at, !.ppk = reference,
                     !.type = "verification_request", !.userId = userId,
                     !.reference = reference, !.event = event,
                     !.verificationUrl = verificationUrl, !.language = language,
                     !.created_at = created_at]

\* createVerificationSession: the meta row of the new reference
CreatedMetaRow(userId, reference, event, verificationUrl, language, created_at) ==
    [BlankRow EXCEPT !.pk = MetaPk(reference), !.sk = "meta", !.ppk = reference,
                     !.type = "meta", !.userId = userId, !.reference = reference,
                     !.status = event, !.verificationUrl = verificationUrl,
                     !.language = language, !.created_at = created_at]

\* handleWebhook: the callback on the timeline
WebhookRow(userId, reference, event, created_at) ==
    [BlankRow EXCEPT !.pk = UserPk(userId), !.sk = created_at, !.ppk = reference,
                     !.type = "webhook_event", !.userId = userId,
                     !.reference = reference, !.event = event,
                     !.created_at = created_at]

\* UpdatedMetaRow keyed like a timeline entry, by created_at
UpdatedMetaRowTimed(meta, userId, reference, status, created_at) ==
    [BlankRow EXCEPT !.pk = MetaPk(reference), !.sk = created_at, !.ppk = reference,
                     !.type = "meta", !.userId = userId, !.reference = reference,
                     !.status = status, !.lastEvent = status,
                     !.lastEventAt = created_at,
                     !.verificationUrl = Nullish(meta.verificationUrl, Null),
                     !.language = Nullish(meta.language, DEFAULT_LANGUAGE),
                     !.created_at = Nullish(meta.created_at, created_at)]

\* handleWebhook and updateRecordStatus: the meta row written over the old one
UpdatedMetaRow(meta, userId, reference, status, created_at) ==
    [BlankRow EXCEPT !.pk = MetaPk(reference), !.sk = "meta", !.ppk = reference,
                     !.type = "meta", !.userId = userId, !.reference = reference,
                     !.status = status, !.lastEvent = status,
                     !.lastEventAt = created_at,
                     !.verificationUrl = Nullish(meta.verificationUrl, Null),
                     !.language = Nullish(meta.language, DEFAULT_LANGUAGE),
                     !.created_at = Nullish(meta.created_at, created_at)]

\* updateRecordStatus: the override on the timeline
StatusChangeRow(userId, reference, newStatus, created_at) ==
    [BlankRow EXCEPT !.pk = UserPk(userId), !.sk = created_at, !.ppk = reference,
                     !.type = "status_change", !.userId = userId,
                     !.reference = reference,
                     !.event = VERIFICATION_STATUS_CHANGED,
                     !.newStatus = newStatus, !.created_at = created_at]

\* registerLocalRateAndMaybeAlert: the advisory row
RateLimitRow(at) ==
    [BlankRow EXCEPT !.pk = "system_shufti", !.sk = at, !.ppk = "rate_limit",
                     !.type = "rate_limit", !.created_at = at]

\* ------------------------------------------------------------------------
\* Results of the handlers
\* ------------------------------------------------------------------------
NoResult ==
    [kind |-> "none", reference |-> Undef, status |-> Undef,
     verificationUrl |-> Undef, event |-> Undef]

\* { alreadyValidated: true, reference, status, verificationUrl }
AlreadyValidated(reference, status, verificationUrl) ==
    [NoResult EXCEPT !.kind = "alreadyValidated", !.reference = reference,
                     !.status = status, !.verificationUrl = verificationUrl]

\* { alreadyHasActive: true, reference, status, verificationUrl }
AlreadyHasActive(reference, status, verificationUrl) ==
    [NoResult EXCEPT !.kind = "alreadyHasActive", !.reference = reference,
                     !.status = status, !.verificationUrl = verificationUrl]

\* { reference, verificationUrl }
Created(reference, verificationUrl) ==
    [NoResult EXCEPT !.kind = "created", !.reference = reference,
                     !.verificationUrl = verificationUrl]

\* a raised error; status names it
Thrown(what) == [NoResult EXCEPT !.kind = "throw", !.status = what]

\* { ok: false }
WebhookRejected == [NoResult EXCEPT !.kind = "ok_false"]

\* { ok: true, reference, event }
WebhookStored(reference, event) ==
    [NoResult EXCEPT !.kind = "ok_true", !.reference = reference, !.event = event]

\* null
NullResult == [NoResult EXCEPT !.kind = "null"]

\* { meta, verificationRequests, webhookEvents, statusChanges }: the members
\* are the locals of the same names
RecordResult(reference) == [NoResult EXCEPT !.kind = "record", !.reference = reference]

\* a boolean result
Bool(b) == [NoResult EXCEPT !.kind = IF b THEN "true" ELSE "false"]

\* ------------------------------------------------------------------------
\* State
\* ------------------------------------------------------------------------
VARIABLES
    store,      \* the rows of the table
    now,        \* the clock as last read, Date.now()
    window,     \* LOCAL_REQUEST_TIMESTAMPS
    calls,      \* per caller: the handler it runs, where it is, its locals
    workers,    \* how many callers run handlers side by side
    everAccepted,   \* history: the <<userId, reference>> of every meta row
                    \* that has been written with status verification.accepted
    scenario,   \* history: the calls that have returned, in order, for as
                \* long as they are the calls of the end-to-end scenario
    lastWritten,    \* history: per reference, the timeline entry written last
    recent      \* history: the times of the accounted calls, those more than
                \* WindowMs before the latest one left out

vars ==
    <<store, now, window, calls, workers, everAccepted, scenario, lastWritten, recent,
      CONFIG>>

\* A caller's record.  op/pc: the handler and its position; userId .. tag:
\* the arguments; mode: the way the provider has answered; errors: the
\* messages passed to ErrorHandler.add_error; batch: the timeline as the
\* store returned it; scan: the verification_request rows still to visit, in
\* loop order; cand:
\* activeCandidate; meta .. rateAt: locals; verificationRequests ..
\* statusChanges: the lists of getRecordByReference; ret: the outcome; pre:
\* the store when the handler was called; sent: the raw body and the
\* signature header of the HTTP request, where the call came through the
\* router.
IdleCall ==
    [op |-> "none", pc |-> "idle", userId |-> Undef, userEmail |-> Undef,
     appLocale |-> Undef, mode |-> Undef, errors |-> {},
     reference |-> Undef, newStatus |-> Undef, body |-> BlankBody, tag |-> BlankTag,
     batch |-> <<>>, scan |-> <<>>, cand |-> NoResult, meta |-> NullRow,
     event |-> Undef, verificationUrl |-> Undef, language |-> Undef,
     created_at |-> Undef, rateAt |-> Undef,
     verificationRequests |-> <<>>, webhookEvents |-> <<>>, statusChanges |-> <<>>,
     ret |-> NoResult, pre |-> {}, sent |-> [body |-> BlankBody, tag |-> BlankTag]]

Init ==
    /\ store = {}
    /\ now = 1
    /\ window = <<>>
    /\ calls = [p \in Procs |-> IdleCall]
    /\ workers = 1
    /\ everAccepted = {}
    /\ scenario = [on |-> TRUE, calls |-> <<>>]
    /\ lastWritten = {}
    /\ recent = <<>>
    /\ CONFIG = [SECRET_KEY |-> "secret_abc"]

\* ------------------------------------------------------------------------
\* Inputs
\* ------------------------------------------------------------------------
Users == {"u1", "u2"}

\* userId and userEmail of a createVerificationSession call: both given, or
\* one of them empty or left out
CreateInputs ==
    (Users \X {"user@example32.com"})
      \cup {<<"", "user@example32.com">>, <<Undef, "user@example32.com">>,
            <<"u1", "">>}

AppLocales == {"fr-CA"}

\* the modes of the fetch double, and a non-200 answer with a wrong tag
FetchModes ==
    {"HAPPY", "NON_200", "INVALID_JSON", "BAD_SIGNATURE", "NETWORK_ERROR",
     "NON_200_BAD_SIGNATURE"}

WebhookEvents == {VERIFICATION_ACCEPTED, REVIEW_PENDING}

NewStatuses == {VERIFICATION_DECLINED}

\* references a caller may name: the generated ones, once the provider has
\* been sent them or the store holds them
RefInputs ==
    {calls[p].reference :
       p \in {q \in Procs : calls[q].op = "create"
                             /\ calls[q].pc \in {"fetch", "put1", "put2"}}}
      \cup ({generateReference(t, rnd) : t \in 1..MaxTime, rnd \in 0..MaxRand}
              \cap {r.reference : r \in store})

\* bodies a sender may post
WebhookBodies ==
    {BlankBody, [BlankBody EXCEPT !.form = "empty"],
     [BlankBody EXCEPT !.form = "not_json"], [BlankBody EXCEPT !.form = "null"],
     [BlankBody EXCEPT !.form = "scalar"]}
      \cup {ObjectBody(r, e, Undef, Undef) : r \in RefInputs, e \in WebhookEvents}
      \cup {ObjectBody(Undef, Undef, Undef, Undef)}

\* tags a sender may attach to a body: some text and the tag of the body and,
\* with one of the bodies, also no tag, "", the tag with white space around
\* it and the tag under another secret
WebhookTags(body) ==
    {WrongTag, signatureFor(body, SECRET_KEY)}
      \cup IF body = ObjectBody(Undef, Undef, Undef, Undef)
           THEN {BlankTag, EmptyTag, Padded(signatureFor(body, SECRET_KEY)),
                 signatureFor(body, "secret_xyz")}
           ELSE {}

\* what a read of the clock may return: time passes, it never runs backwards
Clock == now..MaxTime

\* a caller may start a handler
CanBegin(p) == p <= workers /\ calls[p].pc = "idle"

\* the table of the model has room for n more rows
RoomFor(n) == Cardinality(store) + n <= MaxRows

\* the rows a webhook or an override of reference may add: its timeline entry,
\* and the projection where there is none yet
Needs(reference) ==
    IF GetItem(store, MetaPk(reference), "meta") = NullRow THEN 2 ELSE 1

Start(op) == [IdleCall EXCEPT !.op = op, !.pre = store]

\* everAccepted once row has been written
Noted(row) ==
    IF row.type = "meta" /\ row.status = VERIFICATION_ACCEPTED
    THEN everAccepted \cup {<<row.userId, row.reference>>}
    ELSE everAccepted

\* lastWritten once the timeline entry row has been written
Logged(row) == {e \in lastWritten : e.reference # row.reference} \cup {row}

Finish(c, result) == [c EXCEPT !.pc = "done", !.ret = result, !.scan = <<>>]

\* the verification_request rows of the reversed timeline, in loop order
\* (the loop skips every other row without any effect)
RequestsOf(timeline) ==
    SelectSeq(Reverse(timeline), LAMBDA item : item.type = "verification_request")

\* ------------------------------------------------------------------------
\* createVerificationSession
\* ------------------------------------------------------------------------

\* d.required && (v === null || v === undefined || v === "")
Missing(v) == v \in {Undef, Null, ""}

\* ValidationFails finding nothing missing
ValidationSkipped(userId, userEmail) == FALSE

\* sanitizeValidate: a required value that is missing or empty is refused
ValidationFails(userId, userEmail) == Missing(userId) \/ Missing(userEmail)

\* the while loop of registerLocalRateAndMaybeAlert
RECURSIVE Prune(_, _)
Prune(w, t) ==
    IF Len(w) > 0 /\ t - Head(w) > WindowMs THEN Prune(Tail(w), t) ELSE w

\* LOCAL_REQUEST_TIMESTAMPS after the push and the shifts
Accounted(w, t) == Prune(Append(w, t), t)

\* Breached with >= in the place of >
BreachedAtThreshold(w, t) == Len(Accounted(w, t)) >= PER_MINUTE_LIMIT

\* count > CONFIG.PER_MINUTE_LIMIT
Breached(w, t) == Len(Accounted(w, t)) > PER_MINUTE_LIMIT

\* generateReference, normalizeLocaleToLanguage, created_at; the request is sent
Mint(c, t, rnd) ==
    [c EXCEPT !.pc = "fetch", !.scan = <<>>,
              !.reference = generateReference(t, rnd),
              !.language =
                  normalizeLocaleToLanguage(OrElse(c.appLocale, DEFAULT_LANGUAGE)),
              !.created_at = ISO(t)]

\* KeepCandidate without the test of !activeCandidate: the last ACTIVE
\* attempt of the scan is kept
KeepLastCandidate(cand, reference, status, verificationUrl) ==
    IF status \in ACTIVE_EVENTS
    THEN AlreadyHasActive(reference, status, verificationUrl)
    ELSE cand

\* activeCandidate after one visited attempt: the first ACTIVE one is kept
KeepCandidate(cand, reference, status, verificationUrl) ==
    IF cand = NoResult /\ status \in ACTIVE_EVENTS
    THEN AlreadyHasActive(reference, status, verificationUrl)
    ELSE cand

\* VisitRequest returning the first reusable attempt of the scan, ACTIVE or
\* ACCEPTED
VisitRequestFirstReusable(c, meta) ==
    LET item == Head(c.scan)
        status == ResolveStatus(meta, item)
        verificationUrl == ResolveUrl(meta, item)
    IN  IF status = VERIFICATION_ACCEPTED
        THEN Finish(c, AlreadyValidated(item.reference, status, verificationUrl))
        ELSE IF status \in ACTIVE_EVENTS
        THEN Finish(c, AlreadyHasActive(item.reference, status, verificationUrl))
        ELSE [c EXCEPT !.scan = Tail(@)]

\* one turn of the for loop on the attempt at the head of scan, given the
\* meta resolved from the index query for its reference
VisitRequest(c, meta) ==
    LET item == Head(c.scan)
        status == ResolveStatus(meta, item)
        verificationUrl == ResolveUrl(meta, item)
    IN  IF status = VERIFICATION_ACCEPTED
        THEN Finish(c, AlreadyValidated(item.reference, status, verificationUrl))
        ELSE [c EXCEPT !.cand = KeepCandidate(@, item.reference, status,
                                              verificationUrl),
                       !.scan = Tail(@)]

\* recent once a call is accounted at time t
Counted(h, t) == SelectSeq(Append(h, t), LAMBDA x : t - x <= WindowMs)

\* AfterScanCall under a per-user lock: a call that finds another call of
\* its user past the scan returns that call's attempt
AfterScanCallExclusive(c, w, t, rnd) ==
    LET others == {q \in Procs : /\ calls[q] # c
                                 /\ calls[q].op = "create"
                                 /\ calls[q].userId = c.userId
                                 /\ calls[q].pc \in {"fetch", "put1", "put2"}}
    IN  IF c.cand # NoResult THEN Finish(c, c.cand)
        ELSE IF others # {}
        THEN Finish(c, AlreadyHasActive(calls[CHOOSE q \in others : TRUE].reference,
                                        REQUEST_PENDING, Null))
        ELSE IF Breached(w, t) THEN [c EXCEPT !.pc = "rateput", !.rateAt = ISO(t)]
        ELSE Mint(c, t, rnd)

\* the code after the loop, up to its next await
AfterScanCall(c, w, t, rnd) ==
    IF c.cand # NoResult THEN Finish(c, c.cand)
    ELSE IF Breached(w, t) THEN [c EXCEPT !.pc = "rateput", !.rateAt = ISO(t)]
    ELSE Mint(c, t, rnd)

\* AfterScanWindow with the call accounted before the outcome of the scan
\* is looked at
AfterScanWindowFirst(c, w, t) == Accounted(w, t)

\* LOCAL_REQUEST_TIMESTAMPS after the scan: the call is accounted only on
\* the create-new path
AfterScanWindow(c, w, t) == IF c.cand # NoResult THEN w ELSE Accounted(w, t)

\* Math.random() is drawn only where generateReference runs
Draws(c, w, t) == IF c.cand = NoResult /\ ~Breached(w, t) THEN 0..MaxRand ELSE {0}

\* the loop has ended: the rest of the synchronous code runs; it reads the
\* clock unless it returns activeCandidate
AfterScan(p, c) ==
    \E t \in IF c.cand = NoResult THEN Clock ELSE {now} :
      /\ c.cand = NoResult =>
           /\ Len(Accounted(window, t)) <= MaxAccounted
           /\ RoomFor(IF Breached(window, t) THEN 3 ELSE 2)
      /\ \E rnd \in Draws(c, window, t) :
           calls' = [calls EXCEPT ![p] = AfterScanCall(c, window, t, rnd)]
      /\ window' = AfterScanWindow(c, window, t)
      /\ recent' = IF c.cand # NoResult THEN recent ELSE Counted(recent, t)
      /\ now' = t

\* the call: validation, the timeline query, and the loop up to its first await
CBegin(p) ==
    /\ CanBegin(p)
    /\ \E args \in CreateInputs, appLocale \in AppLocales :
         LET userId == args[1]
             c0 == [Start("create") EXCEPT !.userId = userId,
                                           !.userEmail = args[2],
                                           !.appLocale = appLocale]
         IN  IF ValidationFails(userId, args[2])
             THEN /\ calls' = [calls EXCEPT ![p] = Finish(c0, Thrown("validation"))]
                  /\ UNCHANGED <<window, recent, now>>
             ELSE \E timeline \in QueryPk(store, UserPk(userId), Limit) :
                    LET c1 == [c0 EXCEPT !.pc = "loop", !.batch = timeline,
                                         !.scan = RequestsOf(timeline)]
                    IN  IF c1.scan # <<>>
                        THEN /\ calls' = [calls EXCEPT ![p] = c1]
                             /\ UNCHANGED <<window, recent, now>>
                        ELSE AfterScan(p, c1)
    /\ UNCHANGED <<store, workers, CONFIG, everAccepted, scenario, lastWritten>>

\* the index query for one attempt, answered from the rows index, and the
\* loop up to its next await
CLoopIn(p, index) ==
    /\ calls[p].op = "create" /\ calls[p].pc = "loop"
    /\ \E meta \in ResolvedMetas(index, Head(calls[p].scan).reference) :
         LET c1 == VisitRequest(calls[p], meta)
         IN  IF c1.pc = "done" \/ c1.scan # <<>>
             THEN /\ calls' = [calls EXCEPT ![p] = c1]
                  /\ UNCHANGED <<window, recent, now>>
             ELSE AfterScan(p, c1)
    /\ UNCHANGED <<store, workers, CONFIG, everAccepted, scenario, lastWritten>>

\* the index holds what the table holds
CLoop(p) == CLoopIn(p, store)

\* the putItem of the advisory row: the row is stored and the reference is
\* generated, or the store refuses the write and the rejection of the awaited
\* promise ends the call
CRatePut(p) ==
    /\ calls[p].op = "create" /\ calls[p].pc = "rateput"
    /\ \E outcome \in PutOutcomes :
         IF outcome = "stored"
         THEN /\ store' = PutItem(store, RateLimitRow(calls[p].rateAt))
              /\ \E t \in Clock, rnd \in 0..MaxRand :
                   /\ calls' = [calls EXCEPT ![p] = Mint(calls[p], t, rnd)]
                   /\ now' = t
         ELSE /\ calls' = [calls EXCEPT ![p] = Finish(calls[p], Thrown("store"))]
              /\ UNCHANGED <<store, now>>
    /\ UNCHANGED <<window, recent, workers, CONFIG, everAccepted, scenario,
                   lastWritten>>

\* the provider's answer to the request for reference, by the mode of the
\* fetch double: thrown (no answer), else ok, rawBody and signature header;
\* mode "ACCEPTED" is the answer of HAPPY with event verification.accepted
Fetch(mode, reference) ==
    LET base == ObjectBody(reference,
                           IF mode = "ACCEPTED" THEN VERIFICATION_ACCEPTED
                           ELSE REQUEST_PENDING,
                           Undef, "https://verify.example/" \o reference)
        rawBody ==
            CASE mode \in {"NON_200", "NON_200_BAD_SIGNATURE"} ->
                   ObjectBody(Undef, REQUEST_INVALID, Undef, Undef)
              [] mode = "INVALID_JSON" -> [BlankBody EXCEPT !.form = "not_json"]
              [] OTHER -> base
    IN  [thrown |-> mode = "NETWORK_ERROR",
         ok |-> mode \notin {"NON_200", "NON_200_BAD_SIGNATURE"},
         rawBody |-> rawBody,
         signature |-> IF mode \in {"BAD_SIGNATURE", "NON_200_BAD_SIGNATURE"}
                       THEN WrongTag
                       ELSE signatureFor(rawBody, SECRET_KEY)]

\* OnResponse raising on a non-200 answer
OnResponseStrict(c, res) ==
    IF res.thrown
    THEN Finish([c EXCEPT !.errors = {"KYC network error (createVerificationSession)"}],
                Thrown("network"))
    ELSE IF ~BodyFalsy(res.rawBody) /\ JSONParseThrows(res.rawBody)
    THEN Finish([c EXCEPT !.errors = {"KYC response invalid JSON"}],
                Thrown("invalid_json"))
    ELSE IF ~res.ok
    THEN Finish([c EXCEPT !.errors = {"KYC response non-200"}], Thrown("non_200"))
    ELSE IF ~verifyShuftiSignature(res.rawBody, res.signature)
    THEN Finish([c EXCEPT !.errors = {"KYC response signature invalid"}],
                Thrown("invalid_signature"))
    ELSE [c EXCEPT !.pc = "put1",
                   !.event = OrElse(Member(res.rawBody, "event"), "unknown"),
                   !.verificationUrl =
                       OrElse(Member(res.rawBody, "verification_url"), Null)]

\* the code after the answer, up to the first putItem
OnResponse(c, res) ==
    IF res.thrown
    THEN Finish([c EXCEPT !.errors = {"KYC network error (createVerificationSession)"}],
                Thrown("network"))
    ELSE IF ~BodyFalsy(res.rawBody) /\ JSONParseThrows(res.rawBody)
    THEN Finish([c EXCEPT !.errors = {"KYC response invalid JSON"}],
                Thrown("invalid_json"))
    ELSE LET c1 == IF res.ok THEN c
                   ELSE [c EXCEPT !.errors = {"KYC response non-200"}]
             parsed == IF BodyFalsy(res.rawBody)
                       THEN ObjectBody(Undef, Undef, Undef, Undef)
                       ELSE res.rawBody
         IN  IF ~verifyShuftiSignature(res.rawBody, res.signature)
             THEN Finish([c1 EXCEPT !.errors = @ \cup {"KYC response signature invalid"}],
                         Thrown("invalid_signature"))
             ELSE [c1 EXCEPT !.pc = "put1",
                             !.event = OrElse(Member(parsed, "event"), "unknown"),
                             !.verificationUrl =
                                 OrElse(Member(parsed, "verification_url"), Null)]

CResponseOn(p, modes) ==
    /\ calls[p].op = "create" /\ calls[p].pc = "fetch"
    /\ \E mode \in modes :
         calls' = [calls EXCEPT
                     ![p] = OnResponse([calls[p] EXCEPT !.mode = mode],
                                       Fetch(mode, calls[p].reference))]
    /\ UNCHANGED <<store, now, window, recent, workers, CONFIG, everAccepted, scenario,
                   lastWritten>>

\* the provider answers in one of the modes of the fetch double
CResponse(p) == CResponseOn(p, FetchModes)

\* The answer in its stages.  fetch() settles when status and headers have
\* come, or with an error; the timer set before the request is cleared right
\* after fetch() has settled; the body is read by res.text() after that.
\* CResponse is the exchange as a whole, with a body that comes.

\* fetch() resolves: status and headers have come, clearTimeout(timer)
CHeaders(p) ==
    /\ calls[p].op = "create" /\ calls[p].pc = "fetch"
    /\ \E mode \in FetchModes \ {"NETWORK_ERROR"} :
         calls' = [calls EXCEPT ![p].pc = "body", ![p].mode = mode]
    /\ UNCHANGED <<store, now, window, recent, workers, CONFIG, everAccepted, scenario,
                   lastWritten>>

\* res.text() resolves: the body has come; the code up to the first putItem
CBody(p) ==
    /\ calls[p].op = "create" /\ calls[p].pc = "body"
    /\ calls' = [calls EXCEPT
                   ![p] = OnResponse(calls[p],
                                     Fetch(calls[p].mode, calls[p].reference))]
    /\ UNCHANGED <<store, now, window, recent, workers, CONFIG, everAccepted, scenario,
                   lastWritten>>

\* res.text() rejects: the connection is lost while the body is read; the
\* await is outside the try blocks
CBodyFails(p) ==
    /\ calls[p].op = "create" /\ calls[p].pc = "body"
    /\ calls' = [calls EXCEPT ![p] = Finish(calls[p], Thrown("network"))]
    /\ UNCHANGED <<store, now, window, recent, workers, CONFIG, everAccepted, scenario,
                   lastWritten>>

\* the timer fires while fetch() is pending: ctrl.abort() rejects it, the
\* catch block reports and rethrows
CTimeout(p) ==
    /\ calls[p].op = "create" /\ calls[p].pc = "fetch"
    /\ calls' = [calls EXCEPT
                   ![p] = OnResponse([calls[p] EXCEPT !.mode = "TIMEOUT"],
                                     Fetch("NETWORK_ERROR", calls[p].reference))]
    /\ UNCHANGED <<store, now, window, recent, workers, CONFIG, everAccepted, scenario,
                   lastWritten>>

\* the attempt is stored on the user's timeline
CPut1(p) ==
    /\ calls[p].op = "create" /\ calls[p].pc = "put1"
    /\ LET c == calls[p]
           row == RequestRow(c.userId, c.reference, c.event, c.verificationUrl,
                             c.language, c.created_at)
       IN  /\ store' = PutItem(store, row)
           /\ lastWritten' = Logged(row)
    /\ calls' = [calls EXCEPT ![p].pc = "put2"]
    /\ UNCHANGED <<now, window, recent, workers, CONFIG, everAccepted, scenario>>

\* the meta row is stored; the call returns
CPut2(p) ==
    /\ calls[p].op = "create" /\ calls[p].pc = "put2"
    /\ LET c == calls[p]
           row == CreatedMetaRow(c.userId, c.reference, c.event, c.verificationUrl,
                                 c.language, c.created_at)
       IN  /\ store' = PutItem(store, row)
           /\ everAccepted' = Noted(row)
           /\ calls' = [calls EXCEPT
                          ![p] = Finish(c, Created(c.reference, c.verificationUrl))]
    /\ UNCHANGED <<now, window, recent, workers, CONFIG, scenario, lastWritten>>

\* ------------------------------------------------------------------------
\* handleWebhook
\* ------------------------------------------------------------------------

\* WebhookEntry without the try/catch around JSON.parse
WebhookEntryUncaught(rawBodyString, signatureHeader) ==
    IF ~verifyShuftiSignature(rawBodyString, signatureHeader) THEN "rejected"
    ELSE IF JSONParseThrows(rawBodyString) THEN "thrown"
    ELSE "parsed"

\* how the checks at the head of handleWebhook end: "rejected" is the
\* return of { ok: false } (the parse error is caught), "parsed" goes on
WebhookEntry(rawBodyString, signatureHeader) ==
    IF ~verifyShuftiSignature(rawBodyString, signatureHeader) THEN "rejected"
    ELSE IF JSONParseThrows(rawBodyString) THEN "rejected"
    ELSE "parsed"

\* what the checks at the head of handleWebhook pass to ErrorHandler.add_error
WebhookErrors(rawBodyString, signatureHeader) ==
    IF ~verifyShuftiSignature(rawBodyString, signatureHeader)
    THEN {"KYC webhook signature invalid"}
    ELSE IF JSONParseThrows(rawBodyString) THEN {"KYC webhook invalid JSON"}
    ELSE {}

\* the code after the parse, up to the index query
Parsed(c, t) ==
    [c EXCEPT !.pc = "query",
              !.reference = OrElse(Member(c.body, "reference"), "unknown"),
              !.event = OrElse(Member(c.body, "event"), "unknown"),
              !.created_at = ISO(t)]

\* the call with its arguments in c: the tag check, the parse, reference,
\* event and created_at
WEnter(p, c) ==
    LET c0 == [c EXCEPT !.errors = WebhookErrors(c.body, c.tag)]
        entry == WebhookEntry(c.body, c.tag)
    IN  CASE entry = "rejected" ->
               /\ calls' = [calls EXCEPT ![p] = Finish(c0, WebhookRejected)]
               /\ UNCHANGED now
          [] entry = "thrown" ->
               /\ calls' = [calls EXCEPT ![p] = Finish(c0, Thrown("webhook"))]
               /\ UNCHANGED now
          [] OTHER ->
               \E t \in Clock :
                 /\ RoomFor(Needs(Parsed(c0, t).reference))
                 /\ calls' = [calls EXCEPT ![p] = Parsed(c0, t)]
                 /\ now' = t

\* handleWebhook called with one of bodies and a tag a sender may attach to it
WBeginWith(p, bodies) ==
    /\ CanBegin(p)
    /\ \E body \in bodies :
         \E tag \in WebhookTags(body) :
           WEnter(p, [Start("webhook") EXCEPT !.body = body, !.tag = tag])
    /\ UNCHANGED <<store, window, recent, workers, CONFIG, everAccepted, scenario,
                   lastWritten>>

\* handleWebhook called with one of the bodies a sender may post
WBegin(p) == WBeginWith(p, WebhookBodies)

\* meta?.userId || payload?.user_id || "unknown"
WebhookUserId(meta, payload) ==
    OrElse(meta.userId, OrElse(Member(payload, "user_id"), "unknown"))

\* the index query for the reference, answered from the rows index: meta
\* and userId
WQueryIn(p, index) ==
    /\ calls[p].op = "webhook" /\ calls[p].pc = "query"
    /\ \E meta \in ResolvedMetas(index, calls[p].reference) :
         calls' = [calls EXCEPT ![p].pc = "put1", ![p].meta = meta,
                                ![p].userId = WebhookUserId(meta, calls[p].body)]
    /\ UNCHANGED <<store, now, window, recent, workers, CONFIG, everAccepted, scenario,
                   lastWritten>>

WQuery(p) == WQueryIn(p, store)

\* the callback is stored on the timeline
WPut1(p) ==
    /\ calls[p].op = "webhook" /\ calls[p].pc = "put1"
    /\ LET c == calls[p]
           row == WebhookRow(c.userId, c.reference, c.event, c.created_at)
       IN  /\ store' = PutItem(store, row)
           /\ lastWritten' = Logged(row)
    /\ calls' = [calls EXCEPT ![p].pc = "put2"]
    /\ UNCHANGED <<now, window, recent, workers, CONFIG, everAccepted, scenario>>

\* the meta row is written over; the call returns
WPut2(p) ==
    /\ calls[p].op = "webhook" /\ calls[p].pc = "put2"
    /\ LET c == calls[p]
           row == UpdatedMetaRow(c.meta, c.userId, c.reference, c.event, c.created_at)
       IN  /\ store' = PutItem(store, row)
           /\ everAccepted' = Noted(row)
           /\ calls' = [calls EXCEPT
                          ![p] = Finish(c, WebhookStored(c.reference, c.event))]
    /\ UNCHANGED <<now, window, recent, workers, CONFIG, scenario, lastWritten>>

\* ------------------------------------------------------------------------
\* updateRecordStatus
\* ------------------------------------------------------------------------

\* the code after meta is found, up to the first putItem
FoundMeta(c, meta, t) == [c EXCEPT !.pc = "put1", !.meta = meta, !.created_at = ISO(t)]

\* the call with newStatus one of statuses, and its index query, answered
\* from the rows index
UBeginIn(p, index, statuses) ==
    /\ CanBegin(p)
    /\ \E reference \in RefInputs \cup {"rate_limit", "ref-does-not-exist"},
          newStatus \in statuses :
         \E meta \in ResolvedMetas(index, reference) :
           LET c0 == [Start("update") EXCEPT !.reference = reference,
                                             !.newStatus = newStatus]
           IN  IF meta = NullRow
               THEN /\ calls' = [calls EXCEPT ![p] = [c0 EXCEPT !.pc = "get"]]
                    /\ UNCHANGED now
               ELSE \E t \in Clock :
                      /\ RoomFor(Needs(reference))
                      /\ calls' = [calls EXCEPT ![p] = FoundMeta(c0, meta, t)]
                      /\ now' = t
    /\ UNCHANGED <<store, window, recent, workers, CONFIG, everAccepted, scenario,
                   lastWritten>>

UBegin(p) == UBeginIn(p, store, NewStatuses)

\* the point lookup of the meta key; without a row the call returns false
UGet(p) ==
    /\ calls[p].op = "update" /\ calls[p].pc = "get"
    /\ LET meta == GetItem(store, MetaPk(calls[p].reference), "meta")
       IN  IF meta = NullRow
           THEN /\ calls' = [calls EXCEPT ![p] =
                               Finish([calls[p] EXCEPT !.errors =
                                         {"KYC updateRecordStatus: meta not found"}],
                                      Bool(FALSE))]
                /\ UNCHANGED now
           ELSE \E t \in Clock :
                  /\ RoomFor(1)
                  /\ calls' = [calls EXCEPT ![p] = FoundMeta(calls[p], meta, t)]
                  /\ now' = t
    /\ UNCHANGED <<store, window, recent, workers, CONFIG, everAccepted, scenario,
                   lastWritten>>

\* the meta row is written over
UPut1(p) ==
    /\ calls[p].op = "update" /\ calls[p].pc = "put1"
    /\ LET c == calls[p]
           row == UpdatedMetaRow(c.meta, c.meta.userId, c.reference, c.newStatus,
                                 c.created_at)
       IN  /\ store' = PutItem(store, row)
           /\ everAccepted' = Noted(row)
    /\ calls' = [calls EXCEPT ![p].pc = "put2"]
    /\ UNCHANGED <<now, window, recent, workers, CONFIG, scenario, lastWritten>>

\* the override is stored on the timeline; the call returns true
UPut2(p) ==
    /\ calls[p].op = "update" /\ calls[p].pc = "put2"
    /\ LET c == calls[p]
           row == StatusChangeRow(c.meta.userId, c.reference, c.newStatus,
                                  c.created_at)
       IN  /\ store' = PutItem(store, row)
           /\ lastWritten' = Logged(row)
           /\ calls' = [calls EXCEPT ![p] = Finish(c, Bool(TRUE))]
    /\ UNCHANGED <<now, window, recent, workers, CONFIG, everAccepted, scenario>>

\* ------------------------------------------------------------------------
\* isUserValidated
\* ------------------------------------------------------------------------

\* the call and its timeline query
VBegin(p) ==
    /\ CanBegin(p)
    /\ \E userId \in Users :
         \E timeline \in QueryPk(store, UserPk(userId), Limit) :
           LET c0 == [Start("isValidated") EXCEPT !.userId = userId,
                                                  !.batch = timeline,
                                                  !.scan = RequestsOf(timeline)]
           IN  calls' = [calls EXCEPT ![p] =
                 IF c0.scan = <<>> THEN Finish(c0, Bool(FALSE))
                 ELSE [c0 EXCEPT !.pc = "loop"]]
    /\ UNCHANGED <<store, now, window, recent, workers, CONFIG, everAccepted, scenario,
                   lastWritten>>

\* one turn of the loop, given the meta resolved from the index query
CheckRequest(c, meta) ==
    IF meta.status = VERIFICATION_ACCEPTED THEN Finish(c, Bool(TRUE))
    ELSE IF Len(c.scan) = 1 THEN Finish(c, Bool(FALSE))
    ELSE [c EXCEPT !.scan = Tail(@)]

\* the index query for one attempt, answered from the rows index, and the test
VLoopIn(p, index) ==
    /\ calls[p].op = "isValidated" /\ calls[p].pc = "loop"
    /\ \E meta \in ResolvedMetas(index, Head(calls[p].scan).reference) :
         calls' = [calls EXCEPT ![p] = CheckRequest(calls[p], meta)]
    /\ UNCHANGED <<store, now, window, recent, workers, CONFIG, everAccepted, scenario,
                   lastWritten>>

VLoop(p) == VLoopIn(p, store)

\* ------------------------------------------------------------------------
\* getRecordByReference
\* ------------------------------------------------------------------------

\* OfType keeping only the first row of the type
OfTypeFirst(sorted, type) ==
    LET all == SelectSeq(sorted, LAMBDA item : item.type = type)
    IN  IF all = <<>> THEN all ELSE <<all[1]>>

\* the rows of a type in the order of the loop: list.push(item)
OfType(sorted, type) == SelectSeq(sorted, LAMBDA item : item.type = type)

\* meta after the loop: the last row of type meta, else null
LastMeta(sorted) ==
    LET metas == OfType(sorted, "meta")
    IN  IF metas = <<>> THEN NullRow ELSE metas[Len(metas)]

\* the call, its index query and the loop over the reversed result
GBegin(p) ==
    /\ CanBegin(p)
    /\ \E reference \in RefInputs \cup {"rate_limit", "ref-does-not-exist"} :
         \E items \in QueryGsi(store, reference) :
           LET sorted == Reverse(items)
               c0 == [Start("record") EXCEPT !.reference = reference]
               c1 == [c0 EXCEPT
                        !.meta = LastMeta(sorted),
                        !.verificationRequests = OfType(sorted, "verification_request"),
                        !.webhookEvents = OfType(sorted, "webhook_event"),
                        !.statusChanges = OfType(sorted, "status_change")]
           IN  calls' = [calls EXCEPT ![p] =
                 IF items = <<>> THEN Finish(c0, NullResult)
                 ELSE IF c1.meta = NullRow THEN [c1 EXCEPT !.pc = "get"]
                 ELSE Finish(c1, RecordResult(reference))]
    /\ UNCHANGED <<store, now, window, recent, workers, CONFIG, everAccepted, scenario,
                   lastWritten>>

\* the point lookup of the meta key where the index query gave no meta row
GGet(p) ==
    /\ calls[p].op = "record" /\ calls[p].pc = "get"
    /\ LET c == calls[p]
           meta == GetItem(store, MetaPk(c.reference), "meta")
       IN  calls' = [calls EXCEPT ![p] =
                       Finish([c EXCEPT !.meta = meta], RecordResult(c.reference))]
    /\ UNCHANGED <<store, now, window, recent, workers, CONFIG, everAccepted, scenario,
                   lastWritten>>

\* ------------------------------------------------------------------------
\* The router: POST /webhook
\* ------------------------------------------------------------------------

\* JSON.stringify({ reference, event: KYC_EVENT.VERIFICATION_ACCEPTED }) on
\* the reference of req.body (a member that is undefined is left out)
RouteBody(body) == ObjectBody(Member(body, "reference"), VERIFICATION_ACCEPTED, Undef, Undef)

\* signatureFor(rawBodyString, "secret_abc")
RouteTag(body) == signatureFor(RouteBody(body), "secret_abc")

\* the requests a sender may post to the endpoint: a JSON object naming a
\* reference in use or none, with no signature header, some text, or the
\* tag of the body under the deployment's secret
RouteRequests ==
    {[body |-> body, tag |-> tag] :
       body \in {ObjectBody(r, e, Undef, Undef) :
                   r \in RefInputs \cup {Undef}, e \in WebhookEvents},
       tag \in {BlankTag, WrongTag}}
      \cup {[body |-> ObjectBody(r, e, Undef, Undef),
              tag |-> signatureFor(ObjectBody(r, e, Undef, Undef), SECRET_KEY)] :
               r \in RefInputs \cup {Undef}, e \in WebhookEvents}

\* the handler of the route: handleWebhook is called with the body and the
\* tag the route has made itself
RWebhook(p) ==
    /\ CanBegin(p)
    /\ \E req \in RouteRequests :
         WEnter(p, [Start("webhook") EXCEPT !.body = RouteBody(req.body),
                                            !.tag = RouteTag(req.body),
                                            !.sent = req])
    /\ UNCHANGED <<store, window, recent, workers, CONFIG, everAccepted, scenario,
                   lastWritten>>

\* ------------------------------------------------------------------------
\* The specification
\* ------------------------------------------------------------------------
\* the k-th call of the end-to-end scenario of the tests, after the calls h:
\* create for a user, answered with request.pending; create again; the
\* signed callback verification.accepted for the reference; isUserValidated;
\* create once more
ScenarioCall(h, c) ==
    LET k == Len(h) + 1
    IN  CASE k = 1 -> /\ c.op = "create" /\ c.userId \in Users
                      /\ c.ret.kind = "created" /\ c.event = REQUEST_PENDING
          [] k \in {2, 5} -> c.op = "create" /\ c.userId = h[1].userId
          [] k = 3 -> /\ c.op = "webhook"
                      /\ c.body = ObjectBody(h[1].ret.reference, VERIFICATION_ACCEPTED,
                                             Undef, Undef)
                      /\ Trim(c.tag) = signatureFor(c.body, SECRET_KEY)
          [] k = 4 -> c.op = "isValidated" /\ c.userId = h[1].userId
          [] OTHER -> FALSE

\* scenario once the call c has returned
Recorded(c) ==
    IF scenario.on /\ ScenarioCall(scenario.calls, c)
    THEN [scenario EXCEPT !.calls = Append(@, [op |-> c.op, userId |-> c.userId,
                                               ret |-> c.ret])]
    ELSE [on |-> FALSE, calls |-> <<>>]

\* the caller takes the outcome
Return(p) ==
    /\ calls[p].pc = "done"
    /\ calls' = [calls EXCEPT ![p] = IdleCall]
    /\ scenario' = Recorded(calls[p])
    /\ UNCHANGED <<store, now, window, recent, workers, CONFIG, everAccepted,
                   lastWritten>>

Next ==
    \E p \in Procs :
         \/ CBegin(p) \/ CLoop(p) \/ CRatePut(p) \/ CResponse(p) \/ CPut1(p) \/ CPut2(p)
         \/ WBegin(p) \/ WQuery(p) \/ WPut1(p) \/ WPut2(p)
         \/ UBegin(p) \/ UGet(p) \/ UPut1(p) \/ UPut2(p)
         \/ VBegin(p) \/ VLoop(p)
         \/ Return(p)

Spec == Init /\ [][Next]_vars

\* ------------------------------------------------------------------------
\* The signature codec on its own: verifyShuftiSignature applied to a raw
\* body and a header value, under the secret configure() has set
\* ------------------------------------------------------------------------
SigSecrets == {"secret_abc", "secret_xyz", ""}

SigBodies ==
    {BlankBody, [BlankBody EXCEPT !.form = "empty"],
     [BlankBody EXCEPT !.form = "not_json"],
     ObjectBody("ref-1-0", VERIFICATION_ACCEPTED, Undef, Undef),
     ObjectBody("ref-2-0", VERIFICATION_ACCEPTED, Undef, Undef)}

\* the tags signatureFor gives on those bodies under those secrets
SigDigests == {signatureFor(b, s) : b \in SigBodies, s \in SigSecrets}

\* the characters a header value is made of
SigChars ==
    {Space, OtherChar}
      \cup {HexChar(b, Sha256Secret(s), i) :
              b \in SigBodies, s \in SigSecrets, i \in 1..DigestLen}

\* the texts that differ from text in exactly one character
OneByteOff(text) ==
    {[text EXCEPT ![i] = ch] : i \in DOMAIN text, ch \in SigChars} \ {text}

\* header values: absent, "", some text, white space, a digest, a digest with
\* white space around it, a digest with one character replaced
SigTags ==
    {BlankTag, EmptyTag, WrongTag, [form |-> "string", text |-> <<Space>>]}
      \cup SigDigests
      \cup {Padded(g) : g \in SigDigests}
      \cup {[form |-> "string", text |-> t] :
              t \in UNION {OneByteOff(g.text) : g \in SigDigests}}

InitSig ==
    /\ store = {}
    /\ now = 1
    /\ window = <<>>
    /\ workers = 1
    /\ everAccepted = {}
    /\ scenario = [on |-> FALSE, calls |-> <<>>]
    /\ lastWritten = {}
    /\ recent = <<>>
    /\ \E secret \in SigSecrets, body \in SigBodies, tag \in SigTags :
         /\ CONFIG = [SECRET_KEY |-> secret]
         /\ calls = [p \in Procs |->
                       IF p = 1
                       THEN [Start("verify") EXCEPT !.pc = "call", !.body = body,
                                                    !.tag = tag, !.pre = {}]
                       ELSE IdleCall]

\* the call of verifyShuftiSignature
Verify(p) ==
    /\ calls[p].op = "verify" /\ calls[p].pc = "call"
    /\ calls' = [calls EXCEPT ![p] =
                   Finish(calls[p],
                          Bool(verifyShuftiSignature(calls[p].body, calls[p].tag)))]
    /\ UNCHANGED <<store, now, window, recent, workers, CONFIG, everAccepted, scenario,
                   lastWritten>>

NextSig == \E p \in Procs : Verify(p)

SpecSig == InitSig /\ [][NextSig]_vars

\* ------------------------------------------------------------------------
\* The ledger of one user read back: createVerificationSession for u1 with
\* a provider that answers well or not at all, signed callbacks whose payloads also carry
\* user_id and verification_url, overrides, getRecordByReference and
\* isUserValidated
\* ------------------------------------------------------------------------

\* user_id and verification_url of a callback's payload: absent, or those
\* of another user
PayloadExtras == {<<Undef, Undef>>, <<"u2", "https://other.example/">>}

\* the callbacks for the references in use and for the index key of the
\* advisory rows
SignedBodies ==
    {ObjectBody(r, e, x[1], x[2]) :
       r \in RefInputs, e \in WebhookEvents, x \in PayloadExtras}
      \cup {ObjectBody("rate_limit", REVIEW_PENDING, "u2", "https://other.example/")}

InitRecord ==
    /\ store = {}
    /\ now = 1
    /\ window = <<>>
    /\ calls = [p \in Procs |-> IdleCall]
    /\ workers = 1
    /\ everAccepted = {}
    /\ scenario = [on |-> FALSE, calls |-> <<>>]
    /\ lastWritten = {}
    /\ recent = <<>>
    /\ CONFIG = [SECRET_KEY |-> "secret_abc"]

NextRecord ==
    \E p \in Procs :
         \/ CBegin(p) /\ calls'[p].userId = "u1" /\ ~Missing(calls'[p].userEmail)
         \/ CLoop(p) \/ CRatePut(p)
         \/ CResponse(p) /\ calls'[p].mode \in {"HAPPY", "NETWORK_ERROR"}
         \/ CPut1(p) \/ CPut2(p)
         \/ WBeginWith(p, SignedBodies) /\ calls'[p].pc = "query"
         \/ WQuery(p) \/ WPut1(p) \/ WPut2(p)
         \/ UBegin(p) \/ UGet(p) \/ UPut1(p) \/ UPut2(p)
         \/ GBegin(p) \/ GGet(p)
         \/ VBegin(p) /\ calls'[p].userId = "u1"
         \/ VLoop(p)
         \/ Return(p)

SpecRecord == InitRecord /\ [][NextRecord]_vars

\* ------------------------------------------------------------------------
\* Two callers side by side: createVerificationSession for u1 from both,
\* their awaits interleaved, with a provider that answers well
\* ------------------------------------------------------------------------
InitConc ==
    /\ store = {}
    /\ now = 1
    /\ window = <<>>
    /\ calls = [p \in Procs |-> IdleCall]
    /\ workers = 2
    /\ everAccepted = {}
    /\ scenario = [on |-> FALSE, calls |-> <<>>]
    /\ lastWritten = {}
    /\ recent = <<>>
    /\ CONFIG = [SECRET_KEY |-> "secret_abc"]

NextConc ==
    \E p \in Procs :
         \/ CBegin(p) /\ calls'[p].userId = "u1" /\ ~Missing(calls'[p].userEmail)
         \/ CLoop(p) \/ CRatePut(p)
         \/ CResponse(p) /\ calls'[p].mode = "HAPPY"
         \/ CPut1(p) \/ CPut2(p)
         \/ Return(p)

SpecConc == InitConc /\ [][NextConc]_vars

\* ------------------------------------------------------------------------
\* The provider exchange in its stages: createVerificationSession for u1
\* with a provider that may answer, fail or fall silent before the headers
\* and before the body.  What the program itself does is fair: a timer that
\* stays set fires, a store call returns.  Nothing makes the provider answer.
\* ------------------------------------------------------------------------
NextLive ==
    \E p \in Procs :
         \/ CBegin(p) /\ calls'[p].userId = "u1" /\ ~Missing(calls'[p].userEmail)
         \/ CLoop(p) \/ CRatePut(p)
         \/ CResponse(p) /\ calls'[p].mode = "NETWORK_ERROR"
         \/ CHeaders(p) \/ CBody(p) \/ CBodyFails(p) \/ CTimeout(p)
         \/ CPut1(p) \/ CPut2(p)
         \/ Return(p)

LiveFair ==
    \A p \in Procs :
      /\ WF_vars(CTimeout(p))
      /\ WF_vars(CLoop(p)) /\ WF_vars(CRatePut(p))
      /\ WF_vars(CPut1(p)) /\ WF_vars(CPut2(p))

SpecLive == InitRecord /\ [][NextLive]_vars /\ LiveFair

\* ------------------------------------------------------------------------
\* The service behind its router: sessions created for u1 with a provider
\* that answers well, and requests posted to the webhook endpoint
\* ------------------------------------------------------------------------
NextRoute ==
    \E p \in Procs :
         \/ CBegin(p) /\ calls'[p].userId = "u1" /\ ~Missing(calls'[p].userEmail)
         \/ CLoop(p) \/ CRatePut(p)
         \/ CResponse(p) /\ calls'[p].mode = "HAPPY"
         \/ CPut1(p) \/ CPut2(p)
         \/ RWebhook(p) \/ WQuery(p) \/ WPut1(p) \/ WPut2(p)
         \/ Return(p)

SpecRoute == InitRecord /\ [][NextRoute]_vars

\* ------------------------------------------------------------------------
\* The ledger behind a secondary index that may lag: a query by reference
\* is answered from the rows the index holds, which are those of the table
\* or, while the index has not caught up, none; point lookups and queries by
\* partition read the table.  Sessions are created for u1, callbacks and
\* overrides name the references in use.
\* ------------------------------------------------------------------------
IndexViews == {store, {}}

NextLag ==
    \E p \in Procs :
         \/ CBegin(p) /\ calls'[p].userId = "u1" /\ ~Missing(calls'[p].userEmail)
         \/ \E index \in IndexViews : CLoopIn(p, index)
         \/ CRatePut(p)
         \/ CResponse(p) /\ calls'[p].mode = "HAPPY"
         \/ CPut1(p) \/ CPut2(p)
         \/ /\ WBeginWith(p, WebhookBodies)
            /\ calls'[p].pc = "query" /\ calls'[p].reference # "unknown"
         \/ \E index \in IndexViews : WQueryIn(p, index)
         \/ WPut1(p) \/ WPut2(p)
         \/ \E index \in IndexViews :
              UBeginIn(p, index, NewStatuses) /\ calls'[p].reference \in RefInputs
         \/ UGet(p) \/ UPut1(p) \/ UPut2(p)
         \/ VBegin(p) /\ calls'[p].userId = "u1"
         \/ \E index \in IndexViews : VLoopIn(p, index)
         \/ Return(p)

SpecLag == InitRecord /\ [][NextLag]_vars

\* ------------------------------------------------------------------------
\* The two answers to "is the user validated" side by side: caller 1 creates
\* sessions for u1 and overrides statuses, caller 2 asks isUserValidated
\* while a createVerificationSession call is under way, and has its answer
\* before that call returns.
\* The provider answers with request.pending or, where it decides at once,
\* with verification.accepted; an override may come without a newStatus
\* (updateRecordStatus does not check its arguments).
\* ------------------------------------------------------------------------
NextAgree ==
    \/ CBegin(1) /\ calls'[1].userId = "u1" /\ ~Missing(calls'[1].userEmail)
    \/ CLoop(1) \/ CRatePut(1)
    \/ CResponseOn(1, {"HAPPY", "ACCEPTED"})
    \/ CPut1(1) \/ CPut2(1)
    \/ UBeginIn(1, store, NewStatuses \cup {Undef})
    \/ UGet(1) \/ UPut1(1) \/ UPut2(1)
    \/ VBegin(2) /\ calls'[2].userId = "u1" /\ calls[1].op = "create"
    \/ VLoop(2)
    \/ Return(1) /\ calls[2].pc = "idle"
    \/ Return(2)

SpecAgree == InitConc /\ [][NextAgree]_vars

\* ------------------------------------------------------------------------
\* Callbacks racing with the creation and with each other: caller 1 creates
\* the first session, for u1, with a provider that answers well, and both
\* callers take signed callbacks for the reference in use, two in all, the
\* awaits of the calls interleaved.  The store is empty when the creation
\* begins, so its scan finds no session and no rate guard to breach
\* ------------------------------------------------------------------------
NextRace ==
    \/ /\ CBegin(1) /\ calls'[1].userId = "u1" /\ ~Missing(calls'[1].userEmail)
       /\ store = {}
    \/ CResponse(1) /\ calls'[1].mode = "HAPPY"
    \/ CPut1(1) \/ CPut2(1)
    \/ \E p \in Procs :
         \/ /\ WBeginWith(p, WebhookBodies)
            /\ calls'[p].pc = "query" /\ calls'[p].reference # "unknown"
            /\ Cardinality({r \in store : r.type = "webhook_event"})
                 + Cardinality({q \in Procs : calls[q].op = "webhook"}) < 2
         \/ WQuery(p) \/ WPut1(p) \/ WPut2(p)
         \/ Return(p)

SpecRace == InitConc /\ [][NextRace]_vars

\* ------------------------------------------------------------------------
\* Properties.  In Spec one caller runs one handler at a time, so at pc =
\* "done" the store differs from the call's pre by the writes of the call.
\* ------------------------------------------------------------------------

\* the callers whose call of the handler op has just finished
Done(op) == {p \in Procs : calls[p].op = op /\ calls[p].pc = "done"}

Keys(tbl) == {<<r.pk, r.sk>> : r \in tbl}

\* the rows of a type that the call c has added: under a key its pre lacks
Added(c, type) ==
    {r \in store : r.type = type /\ <<r.pk, r.sk>> \notin Keys(c.pre)}

\* the statuses the attempt item may resolve to over tbl
StatusesOf(tbl, item) ==
    {ResolveStatus(m, item) : m \in ResolvedMetas(tbl, item.reference)}

\* the positions of the scan of c whose attempt resolves to a status of S
Resolving(c, S) ==
    LET scan == RequestsOf(c.batch)
    IN  {i \in 1..Len(scan) : StatusesOf(c.pre, scan[i]) \subseteq S}

Min(S) == CHOOSE i \in S : \A j \in S : i <= j

Spaces(n) == [k \in 1..n |-> Space]

\* the tag is the digest of the body and the digest of the configured
\* secret, white space around it aside, and the body is not empty
TagVerifies(body, tag) ==
    /\ body.form \notin {"undefined", "empty"}
    /\ tag.form = "string"
    /\ \E i, j \in 0..Len(tag.text) :
         tag.text = Spaces(i) \o Sha256Hex(body, Sha256Secret(SECRET_KEY)) \o Spaces(j)

\* C1: a createVerificationSession for a user whose timeline holds no prior
\* attempt, answered by the provider with a parsable, validly tagged
\* response, adds exactly one verification_request row in user_<userId> and
\* exactly one meta row under meta_<reference>/"meta", both with the same
\* newly generated reference, and returns that reference.
C1_CreateAddsAttemptAndMeta ==
    \A p \in Done("create") :
      LET c == calls[p]
      IN  (/\ ~\E r \in c.pre : /\ r.pk = UserPk(c.userId)
                                 /\ r.type = "verification_request"
           /\ c.event # Undef)
          => /\ c.ret.kind = "created" /\ c.ret.reference = c.reference
             /\ c.reference \notin {r.reference : r \in c.pre}
             /\ \E vr \in store :
                  /\ Added(c, "verification_request") = {vr}
                  /\ vr.pk = UserPk(c.userId) /\ vr.reference = c.reference
             /\ \E m \in store :
                  /\ Added(c, "meta") = {m}
                  /\ m.pk = MetaPk(c.reference) /\ m.sk = "meta"
                  /\ m.reference = c.reference

\* C2: once the meta row of a reference r owned by user u has had status
\* verification.accepted, every later createVerificationSession for u returns
\* alreadyValidated with reference r, whatever has run in between.
C2_AcceptedIsReusedEverAfter ==
    \A p \in Done("create") :
      \A ur \in everAccepted :
        ur[1] = calls[p].userId
          => /\ calls[p].ret.kind = "alreadyValidated"
             /\ calls[p].ret.reference = ur[2]

\* C3: whenever a scanned verification_request resolves to
\* verification.accepted, createVerificationSession returns alreadyValidated
\* with the reference of an ACCEPTED attempt, in every order of the batch and
\* wherever the ACTIVE attempts stand in the scan; never an ACTIVE attempt.
C3_AcceptedBeatsActive ==
    \A p \in Done("create") :
      LET c == calls[p]
          scan == RequestsOf(c.batch)
          accepted == Resolving(c, {VERIFICATION_ACCEPTED})
      IN  accepted # {}
            => /\ c.ret.kind = "alreadyValidated"
               /\ \E i \in accepted : c.ret.reference = scan[i].reference

\* an ACTIVE attempt is scanned before the ACCEPTED one that is returned
C3_Witness ==
    \E p \in Done("create") :
      /\ calls[p].ret.kind = "alreadyValidated"
      /\ \E i \in Resolving(calls[p], ACTIVE_EVENTS) :
           \E j \in Resolving(calls[p], {VERIFICATION_ACCEPTED}) : i < j

\* C4: when no scanned attempt resolves to verification.accepted and at
\* least one resolves to an ACTIVE status, createVerificationSession returns
\* alreadyHasActive with the reference, status and verificationUrl of the
\* first ACTIVE attempt in scan order, and mints no reference and writes
\* nothing.
C4_FirstActiveIsReused ==
    \A p \in Done("create") :
      LET c == calls[p]
          scan == RequestsOf(c.batch)
          active == Resolving(c, ACTIVE_EVENTS)
      IN  (/\ \A i \in 1..Len(scan) :
                VERIFICATION_ACCEPTED \notin StatusesOf(c.pre, scan[i])
           /\ active # {})
          => /\ LET item == scan[Min(active)]
                IN  \E m \in ResolvedMetas(c.pre, item.reference) :
                      c.ret = AlreadyHasActive(item.reference,
                                               ResolveStatus(m, item),
                                               ResolveUrl(m, item))
             /\ c.reference = Undef
             /\ store = c.pre

\* two ACTIVE attempts with different references are scanned
C4_Witness ==
    \E p \in Done("create") :
      LET scan == RequestsOf(calls[p].batch)
          active == Resolving(calls[p], ACTIVE_EVENTS)
      IN  /\ calls[p].ret.kind = "alreadyHasActive"
          /\ \E i, j \in active : scan[i].reference # scan[j].reference

\* C5: create for u answered with request.pending, create for u, the signed
\* callback verification.accepted for r, isUserValidated(u), create for u,
\* one after another, give: a new reference r; alreadyHasActive with r;
\* {ok: true}; true; alreadyValidated with r.
C5_EndToEnd ==
    scenario.on =>
      LET h == scenario.calls
          r == h[1].ret.reference
      IN  /\ Len(h) >= 1 => h[1].ret.kind = "created" /\ Truthy(r)
          /\ Len(h) >= 2 => h[2].ret.kind = "alreadyHasActive"
                            /\ h[2].ret.reference = r
          /\ Len(h) >= 3 => h[3].ret = WebhookStored(r, VERIFICATION_ACCEPTED)
          /\ Len(h) >= 4 => h[4].ret = Bool(TRUE)
          /\ Len(h) >= 5 => h[5].ret.kind = "alreadyValidated"
                            /\ h[5].ret.reference = r

\* C6: a handleWebhook whose tag does not verify, or whose tag verifies but
\* whose body cannot be parsed, returns {ok: false} and leaves every row of
\* the store as it was.
C6_RejectedWebhookWritesNothing ==
    \A p \in Done("webhook") :
      LET c == calls[p]
      IN  (~TagVerifies(c.body, c.tag) \/ JSONParseThrows(c.body))
            => c.ret = WebhookRejected /\ store = c.pre

\* a callback naming a stored reference comes with a tag that does not verify
C6_Witness ==
    \E p \in Done("webhook") :
      LET c == calls[p]
      IN  /\ c.body.form = "object"
          /\ GetItem(c.pre, MetaPk(c.body.reference), "meta") # NullRow
          /\ ~TagVerifies(c.body, c.tag)
          /\ c.ret = WebhookRejected

\* C7: whatever body and tag a sender supplies (absent, empty, a wrong tag,
\* text that is no JSON, signed JSON null, a scalar, an object without
\* reference or event), handleWebhook ends with a result object, {ok: false}
\* or {ok: true, ...}, never with a raised error.
C7_WebhookNeverThrows ==
    \A p \in Procs :
      (calls[p].op = "webhook" /\ calls[p].pc = "done")
        => calls[p].ret.kind \in {"ok_false", "ok_true"}

\* signed text that is no JSON has been answered with {ok: false}
C7_Witness ==
    \E p \in Done("webhook") :
      LET c == calls[p]
      IN  /\ TagVerifies(c.body, c.tag)
          /\ c.body.form = "not_json"
          /\ c.ret = WebhookRejected

\* C8: a handleWebhook with a tag that verifies and a parsable body with
\* reference r and event e appends exactly one webhook_event row for r with
\* event e, leaves r's meta row with status = lastEvent = e and lastEventAt
\* the processing time, and returns {ok: true, reference: r, event: e}.
C8_WebhookAppendsAndProjects ==
    \A p \in Done("webhook") :
      LET c == calls[p]
          r == Member(c.body, "reference")
          e == Member(c.body, "event")
          m == GetItem(store, MetaPk(r), "meta")
      IN  (TagVerifies(c.body, c.tag) /\ ~JSONParseThrows(c.body)
             /\ Truthy(r) /\ Truthy(e))
            => /\ \E w \in store : /\ Added(c, "webhook_event") = {w}
                                    /\ w.reference = r /\ w.event = e
               /\ m.status = e /\ m.lastEvent = e /\ m.lastEventAt = c.created_at
               /\ c.ret = WebhookStored(r, e)

\* C9: updateRecordStatus on a reference without a meta row, also one that
\* other rows are indexed under, returns false and writes no row.
C9_UnknownReferenceIsRefused ==
    \A p \in Done("update") :
      LET c == calls[p]
      IN  GetItem(c.pre, MetaPk(c.reference), "meta") = NullRow
            => c.ret = Bool(FALSE) /\ store = c.pre

\* C10: updateRecordStatus(r, s) on a reference with a meta row returns
\* true, leaves that meta row with status = lastEvent = s, and appends
\* exactly one status_change row for r in the partition of the meta's userId.
C10_OverrideProjectsAndAppends ==
    \A p \in Done("update") :
      LET c == calls[p]
          before == GetItem(c.pre, MetaPk(c.reference), "meta")
          after == GetItem(store, MetaPk(c.reference), "meta")
      IN  before # NullRow
            => /\ c.ret = Bool(TRUE)
               /\ after.status = c.newStatus /\ after.lastEvent = c.newStatus
               /\ \E sc \in store :
                    /\ Added(c, "status_change") = {sc}
                    /\ sc.reference = c.reference
                    /\ sc.pk = UserPk(before.userId)

\* the callers that stand between the first and the last write of a handler
MidWrite == {p \in Procs : calls[p].pc \in {"put1", "put2"}}

\* C11: whenever no operation is part-way through its writes, the meta row
\* of every reference that has one has as status the event of the timeline
\* entry of that reference that was written last, whichever handler wrote it.
C11_StatusIsLastWrittenEvent ==
    MidWrite = {}
      => \A m \in store :
           m.type = "meta"
             => \A e \in lastWritten :
                  e.reference = m.reference => m.status = e.event

C13_TimelineIsImmutable ==
    [][\A r \in store : r.type # "meta" => r \in store']_vars

\* C14: the tag signatureFor gives for a non-empty body under a secret
\* verifies against that body under the same secret; it does not verify
\* against any other body, and no tag that differs from it in one character
\* verifies against that body.
C14_SignatureRoundTrip ==
    \A p \in Done("verify") :
      LET c == calls[p]
          good == signatureFor(c.body, SECRET_KEY)
      IN  ~BodyFalsy(c.body)
            => /\ c.tag = good => c.ret = Bool(TRUE)
               /\ (\E b \in SigBodies \ {c.body} :
                     c.tag = signatureFor(b, SECRET_KEY)) => c.ret = Bool(FALSE)
               /\ (c.tag.form = "string" /\ c.tag.text \in OneByteOff(good.text))
                    => c.ret = Bool(FALSE)

\* a body's tag with white space in the place of its last character has
\* been refused
C14_Witness ==
    \E p \in Done("verify") :
      LET c == calls[p]
          good == signatureFor(c.body, SECRET_KEY)
      IN  /\ c.body.form = "object" /\ SECRET_KEY = "secret_xyz"
          /\ c.tag.text = [good.text EXCEPT ![DigestLen] = Space]
          /\ c.ret = Bool(FALSE)

\* C15: verifyShuftiSignature returns false, and raises nothing, whenever
\* the body is absent or empty or the tag is absent or empty, whatever the
\* other argument is.
C15_EmptyIsInvalid ==
    \A p \in Done("verify") :
      LET c == calls[p]
      IN  (\/ c.body.form \in {"undefined", "empty"}
           \/ c.tag.form = "undefined" \/ Len(c.tag.text) = 0)
            => c.ret = Bool(FALSE)

\* the empty body has come with the digest of the empty body
C15_Witness ==
    \E p \in Done("verify") :
      LET c == calls[p]
      IN  /\ c.body.form = "empty"
          /\ c.tag = signatureFor(c.body, SECRET_KEY)
          /\ c.ret = Bool(FALSE)

\* the createVerificationSession calls that have been accounted and have
\* left the Rate Guard
PastGuard ==
    {p \in Procs : /\ calls[p].op = "create"
                   /\ \/ calls[p].created_at # Undef
                      \/ calls[p].ret = Thrown("store")}

RateRows(tbl) == {r \in tbl : r.type = "rate_limit"}

\* C16: an accounted call writes one rate_limit row, and no more, when the
\* accounted calls of the last WindowMs, itself among them, are more than
\* PER_MINUTE_LIMIT, and writes none when they are not: with the limit N,
\* calls 1 to N of a window write none and call N + 1 writes one.
C16_OneAdvisoryRowPerBreach ==
    \A p \in PastGuard :
      LET c == calls[p]
          count == Len(recent)
      IN  IF count > PER_MINUTE_LIMIT
          THEN /\ c.rateAt # Undef
               /\ RateRows(store) \ RateRows(c.pre) \subseteq {RateLimitRow(c.rateAt)}
               /\ c.ret # Thrown("store") => RateLimitRow(c.rateAt) \in store
          ELSE /\ c.rateAt = Undef
               /\ RateRows(store) = RateRows(c.pre)

\* call PER_MINUTE_LIMIT + 1 of a window has written its advisory row
C16_Witness ==
    \E p \in PastGuard :
      LET c == calls[p]
      IN  /\ c.pc = "done" /\ c.ret.kind = "created"
          /\ Len(recent) = PER_MINUTE_LIMIT + 1
          /\ RateLimitRow(c.rateAt) \in store \ c.pre

\* the answers after which createVerificationSession raises
HardFailures == {"NETWORK_ERROR", "INVALID_JSON", "BAD_SIGNATURE", "NON_200_BAD_SIGNATURE"}

\* the rows of the attempt of the create call c
AttemptRows(tbl, c) ==
    {r \in tbl : /\ r.reference = c.reference
                 /\ r.type \in {"verification_request", "meta"}}

\* C17: a create call on the create-new path made while the count exceeds
\* the threshold is not failed by the guard's advisory write, sends the
\* provider request and ends as the provider's answer says: with the
\* reference and the two attempt rows, or with the error of a hard failure
\* and no row but the advisory one.
C17_GuardNeverRejects ==
    \A p \in Done("create") :
      LET c == calls[p]
      IN  c.rateAt # Undef
            => /\ c.ret # Thrown("store")
               /\ c.mode \in FetchModes
               /\ IF c.mode \in HardFailures
                  THEN /\ c.ret.kind = "throw"
                       /\ store \ c.pre \subseteq {RateLimitRow(c.rateAt)}
                  ELSE /\ c.ret = Created(c.reference, c.verificationUrl)
                       /\ \E vr, m \in AttemptRows(store, c) :
                            /\ vr.type = "verification_request"
                            /\ vr.pk = UserPk(c.userId)
                            /\ m.type = "meta" /\ m.status = vr.event

\* C18: when the provider call fails in transport, or the body cannot be
\* parsed, or the tag does not verify (on a 200 and on a non-200 answer),
\* createVerificationSession raises, and afterwards no verification_request
\* row and no meta row of the generated reference exists; a create call adds
\* a row of these types only after the tag check.
C18_HardFailurePersistsNothing ==
    [][\A p \in Procs :
         LET c == calls'[p]
             failed == /\ c.op = "create" /\ calls[p].pc = "fetch" /\ c.pc = "done"
                       /\ c.mode \in HardFailures
             added == /\ calls[p].op = "create"
                      /\ AttemptRows(store', calls[p]) # AttemptRows(store, calls[p])
         IN  /\ failed => (c.ret.kind = "throw" /\ AttemptRows(store', c) = {})
             /\ added => calls[p].pc \in {"put1", "put2"}]_vars

\* C19: on a non-200 answer with a parsable body and a valid tag
\* createVerificationSession does not raise: it reports the error, stores
\* the verification_request row and the meta row with the provider's event
\* as status, and returns {reference, verificationUrl}.
C19_ProviderRejectedIsPersisted ==
    \A p \in Done("create") :
      LET c == calls[p]
          event == Member(Fetch("NON_200", c.reference).rawBody, "event")
      IN  c.mode = "NON_200"
            => /\ c.ret = Created(c.reference, c.verificationUrl)
               /\ "KYC response non-200" \in c.errors
               /\ \E vr, m \in AttemptRows(store, c) :
                    /\ vr.type = "verification_request"
                    /\ vr.pk = UserPk(c.userId) /\ vr.event = event
                    /\ m.type = "meta" /\ m.pk = MetaPk(c.reference)
                    /\ m.status = event

\* a create call answered with a non-200 has returned its reference
C19_Witness ==
    \E p \in Done("create") :
      /\ calls[p].mode = "NON_200"
      /\ calls[p].ret.kind = "created" /\ Truthy(calls[p].ret.reference)

\* C20: a createVerificationSession call without userId, or without another
\* required input, ends with the validation error in its first step, before
\* any store call, the Rate Guard and the provider call: store and rate
\* window are as they were.
C20_ValidationComesFirst ==
    [][\A p \in Procs :
         LET c == calls'[p]
         IN  (/\ calls[p].pc = "idle" /\ c.op = "create"
              /\ Missing(c.userId) \/ Missing(c.userEmail))
               => /\ c.pc = "done" /\ c.ret = Thrown("validation")
                  /\ store' = store /\ window' = window
                  /\ c.reference = Undef /\ c.mode = Undef]_vars

\* a call without userId has been refused with rows in the store and
\* entries in the rate window
C20_Witness ==
    \E p \in Done("create") :
      /\ Missing(calls[p].userId)
      /\ calls[p].ret = Thrown("validation")
      /\ store # {} /\ window # <<>>

\* the attempts of the user's history over tbl: the verification_request rows
\* of partition user_<userId>
AttemptsOf(tbl, userId) ==
    {r \in tbl : r.type = "verification_request" /\ r.pk = UserPk(userId)}

\* the Meta Projection of reference over tbl, or null
MetaOf(tbl, reference) == GetItem(tbl, MetaPk(reference), "meta")

\* C21: isUserValidated(u) returns true when some attempt of u's history has
\* a Meta Projection with status verification.accepted, and false when none
\* has, however many rows of whatever types u's partition holds.
C21_ValidatedIffAccepted ==
    \A p \in Done("isValidated") :
      LET c == calls[p]
          accepted == \E r \in AttemptsOf(store, c.userId) :
                        MetaOf(store, r.reference).status = VERIFICATION_ACCEPTED
      IN  c.ret = Bool(accepted)

\* the rows indexed under reference over tbl
Indexed(tbl, reference) == {r \in tbl : r.ppk = Str(reference)}

\* the rows of the list are the rows of the type indexed under the
\* reference, each of them once
HoldsAll(list, tbl, reference, type) ==
    /\ {list[i] : i \in 1..Len(list)} =
         {r \in Indexed(tbl, reference) : r.type = type}
    /\ \A i, j \in 1..Len(list) : list[i] = list[j] => i = j

\* C22: getRecordByReference(r) returns null exactly when no row is indexed
\* under r; otherwise meta is r's Meta Projection, that of the index scan or,
\* without one there, that of the point lookup, and every indexed row of
\* type verification_request, webhook_event or status_change is in the list
\* of its type and in no other, once.
C22_RecordPartitionsTheIndex ==
    \A p \in Done("record") :
      LET c == calls[p]
          rows == Indexed(store, c.reference)
      IN  /\ c.ret = NullResult <=> rows = {}
          /\ c.ret # NullResult =>
               /\ c.ret = RecordResult(c.reference)
               /\ c.meta = MetaOf(store, c.reference)
               /\ c.meta # NullRow => c.meta \in rows
               /\ HoldsAll(c.verificationRequests, store, c.reference,
                           "verification_request")
               /\ HoldsAll(c.webhookEvents, store, c.reference, "webhook_event")
               /\ HoldsAll(c.statusChanges, store, c.reference, "status_change")

\* a record has come back with its meta row, its attempt, a callback and an
\* override
C22_Witness ==
    \E p \in Done("record") :
      LET c == calls[p]
      IN  /\ c.meta.type = "meta"
          /\ Len(c.verificationRequests) = 1
          /\ Len(c.webhookEvents) = 1
          /\ Len(c.statusChanges) = 1

\* the callers whose createVerificationSession call found no attempt on the
\* timeline of userId and has ended
FirstCreates(userId) ==
    {p \in Done("create") : /\ calls[p].userId = userId
                            /\ RequestsOf(calls[p].batch) = <<>>}

\* the references whose Meta Projection names userId and has a status of the
\* ACTIVE set
ActiveReferences(userId) ==
    {m.reference : m \in {r \in store : /\ r.type = "meta"
                                        /\ r.userId = userId
                                        /\ r.status \in ACTIVE_EVENTS}}

\* C23: nothing serialises the calls of one user: of two
\* createVerificationSession calls for a user that both scanned the timeline
\* before either had written its attempt, each takes the create-new path
\* (none is handed the other's attempt), and where their references differ
\* the user ends with both of them in the ACTIVE set.
C23_BothCallsCreate ==
    \A p, q \in FirstCreates("u1") :
      p # q =>
        /\ \A x \in {p, q} :
             calls[x].ret \in {Created(calls[x].reference, calls[x].verificationUrl),
                               Thrown("store")}
        /\ (/\ calls[p].ret.kind = "created" /\ calls[q].ret.kind = "created"
            /\ calls[p].reference # calls[q].reference)
             => {calls[p].reference, calls[q].reference} \subseteq ActiveReferences("u1")

\* two calls for u1 that both found an empty timeline have ended, and u1 has
\* two references in the ACTIVE set
C23_Witness ==
    \E p, q \in FirstCreates("u1") :
      /\ p # q
      /\ calls[p].reference # calls[q].reference
      /\ {calls[p].reference, calls[q].reference} \subseteq ActiveReferences("u1")

\* C24: a createVerificationSession call that ends in a hard failure
\* (transport failure, unparsable body, invalid tag) leaves the store as it
\* was when the call was made: no row of any type, the advisory rows among
\* them, is added or changed.
C24_HardFailureLeavesStore ==
    \A p \in Done("create") :
      calls[p].mode \in HardFailures => store = calls[p].pre

\* the handleWebhook calls that have stored their callback
StoredWebhooks == {p \in Done("webhook") : calls[p].ret.kind = "ok_true"}

\* C25: a handleWebhook call that stores its callback for a reference that
\* had a Meta Projection leaves that row's userId, verificationUrl, language
\* and created_at, as all its other fields, as they were, whatever members
\* the payload has: status, lastEvent and lastEventAt alone are written anew.
C25_WebhookKeepsOrigin ==
    \A p \in StoredWebhooks :
      LET c == calls[p]
          before == MetaOf(c.pre, c.reference)
      IN  before # NullRow
            => MetaOf(store, c.reference) =
                 [before EXCEPT !.status = c.event, !.lastEvent = c.event,
                                !.lastEventAt = c.created_at]

\* the statuses the Resolver reuses an attempt for
Reusable == ACTIVE_EVENTS \cup {VERIFICATION_ACCEPTED}

\* C26: when the user has attempts and every one of them resolves to a
\* status that is neither of the ACTIVE set nor verification.accepted, the
\* next createVerificationSession call for the user takes the create-new
\* path and generates a reference no row carries yet, and every row the store
\* held stays in it as it was.
C26_SpentAttemptsAreLeftBehind ==
    \A p \in Done("create") :
      LET c == calls[p]
          attempts == AttemptsOf(c.pre, c.userId)
      IN  (/\ ~ValidationFails(c.userId, c.userEmail)
           /\ attempts # {}
           /\ \A a \in attempts : StatusesOf(c.pre, a) \cap Reusable = {})
            => /\ c.ret.kind \in {"created", "throw"}
               /\ c.ret # Thrown("store")
                    => /\ c.reference # Undef
                       /\ c.reference \notin {r.reference : r \in c.pre}
                       /\ c.pre \subseteq store

\* the keys of the meta rows of tbl
MetaKeys(tbl) == {r.pk : r \in {m \in tbl : m.type = "meta"}}

\* C27: a Meta Projection comes into being only in the second put of
\* createVerificationSession; handleWebhook and updateRecordStatus write one
\* only where there is one already, and no step takes one away.
C27_MetaIsBornAtCreation ==
    [][/\ MetaKeys(store) \subseteq MetaKeys(store')
       /\ MetaKeys(store') # MetaKeys(store)
            => \E p \in Procs : calls[p].op = "create" /\ calls[p].pc = "put2"]_vars

\* the clock values of the verification_request rows of tbl that are not
\* more than WindowMs before the clock value t
RecentAttempts(tbl, t) ==
    {r \in tbl : /\ r.type = "verification_request"
                 /\ \E u \in 1..MaxTime : r.created_at = ISO(u) /\ t - u <= WindowMs}

\* C28: once more than PER_MINUTE_LIMIT createVerificationSession calls have
\* been made inside one window (PER_MINUTE_LIMIT of them have left their
\* attempts, and one more has ended), the store holds a rate_limit row.
C28_FloodLeavesAdvisoryRow ==
    \A p \in Done("create") :
      LET c == calls[p]
      IN  (/\ ~ValidationFails(c.userId, c.userEmail)
           /\ Cardinality(RecentAttempts(c.pre, now)) >= PER_MINUTE_LIMIT)
            => RateRows(store) # {}

\* the errors createVerificationSession raises for a transport, parse or tag
\* failure
ReportedFailures == {Thrown("network"), Thrown("invalid_json"), Thrown("invalid_signature")}

\* C29: no failure is surfaced without a report to the error sink before it:
\* a createVerificationSession call that raises for a transport, parse or
\* tag failure, a handleWebhook call that returns {ok: false} and an
\* updateRecordStatus call that returns false have each passed a message to
\* ErrorHandler.add_error.
C29_FailuresAreReported ==
    \A p \in Procs :
      LET c == calls[p]
          failed == \/ c.op = "create" /\ c.ret \in ReportedFailures
                    \/ c.op = "webhook" /\ c.ret = WebhookRejected
                    \/ c.op = "update" /\ c.ret = Bool(FALSE)
      IN  (c.pc = "done" /\ failed) => c.errors # {}

\* C30: a createVerificationSession call whose provider request has been
\* sent comes to an end, whatever the provider does.
C30_ProviderCallEnds ==
    \A p \in Procs :
      (calls[p].op = "create" /\ calls[p].pc \in {"fetch", "body"})
        ~> (calls[p].pc = "done")

\* ------------------------------------------------------------------------
\* C31: a request to the webhook endpoint whose signature header does not
\* verify against the raw body the sender sent, under the deployment's
\* secret, leaves the store as it was: no timeline entry is created and no
\* meta row changes.
\* ------------------------------------------------------------------------
C31_EndpointChecksTheSender ==
    \A p \in Done("webhook") :
      ~verifyShuftiSignature(calls[p].sent.body, calls[p].sent.tag)
        => store = calls[p].pre

\* the attempts of the batch of c whose Meta Projection, looked up by its
\* key, is accepted
AcceptedByLookup(c) ==
    {item \in {c.batch[i] : i \in DOMAIN c.batch} :
       /\ item.type = "verification_request"
       /\ MetaOf(c.pre, item.reference).status = VERIFICATION_ACCEPTED}

\* ------------------------------------------------------------------------
\* C32: createVerificationSession, isUserValidated, handleWebhook and
\* updateRecordStatus resolve the Meta Projection of a reference alike: where
\* the row under (meta_<reference>, "meta") exists, each of them has a meta
\* that is not null, also when the index query gave no rows.  handleWebhook
\* and updateRecordStatus hold that meta when they come to write;
\* createVerificationSession answers alreadyValidated and isUserValidated
\* true where an attempt of the batch has an accepted Meta Projection.
\* ------------------------------------------------------------------------
C32_FourHandlersResolveAlike ==
    \A p \in Procs :
      LET c == calls[p]
      IN  /\ (c.op \in {"webhook", "update"} /\ c.pc = "put1"
                /\ MetaOf(c.pre, c.reference) # NullRow)
               => c.meta # NullRow
          /\ (c.op = "create" /\ c.pc = "done" /\ AcceptedByLookup(c) # {})
               => c.ret.kind = "alreadyValidated"
          /\ (c.op = "isValidated" /\ c.pc = "done" /\ AcceptedByLookup(c) # {})
               => c.ret = Bool(TRUE)

\* the time an ISO timestamp stands for
TimeOf(iso) == CHOOSE t \in 1..MaxTime : ISO(t) = iso

\* ------------------------------------------------------------------------
\* C33: when several scanned attempts of the user resolve to an ACTIVE
\* status and none to verification.accepted, the reference that
\* createVerificationSession returns with alreadyHasActive is that of the
\* ACTIVE attempt with the greatest created_at, in whatever order the store
\* has returned the timeline.
\* ------------------------------------------------------------------------
C33_LatestActiveIsReused ==
    \A p \in Done("create") :
      LET c == calls[p]
          scan == RequestsOf(c.batch)
          active == Resolving(c, ACTIVE_EVENTS)
      IN  (/\ \A i \in 1..Len(scan) :
                VERIFICATION_ACCEPTED \notin StatusesOf(c.pre, scan[i])
           /\ Cardinality(active) >= 2)
          => \E j \in active :
               /\ c.ret.kind = "alreadyHasActive"
               /\ c.ret.reference = scan[j].reference
               /\ \A i \in active :
                    TimeOf(scan[i].created_at) <= TimeOf(scan[j].created_at)

\* ------------------------------------------------------------------------
\* C34: the reference generated on a create-new path is carried by no row
\* the store held when the call began and by no other call that has
\* generated one, so the creation writes over no Meta Projection.
\* ------------------------------------------------------------------------
C34_ReferencesAreFresh ==
    \A p \in Procs :
      LET c == calls[p]
      IN  (c.op = "create" /\ c.reference # Undef)
            => /\ c.reference \notin {r.reference : r \in c.pre}
               /\ MetaOf(c.pre, c.reference) = NullRow
               /\ \A q \in Procs \ {p} :
                    calls[q].op = "create" => calls[q].reference # c.reference

\* the call of caller p after the step is one that returns without
\* creating: a read, or a createVerificationSession still in its scan or
\* ended with an attempt to reuse
ReadOnlyStep(p) ==
    /\ calls'[p] # calls[p]
    /\ \/ calls'[p].op \in {"isValidated", "record"}
       \/ /\ calls'[p].op = "create"
          /\ \/ calls'[p].pc = "loop"
             \/ /\ calls'[p].pc = "done"
                /\ calls'[p].ret.kind \in {"alreadyValidated", "alreadyHasActive"}

\* ------------------------------------------------------------------------
\* C35: a createVerificationSession call that ends in reuse-accepted or
\* reuse-active, and every isUserValidated and getRecordByReference call,
\* is read-only: none of its steps writes to the store or adds to the
\* window of the rate guard, and it generates no reference and sends the
\* provider nothing.
\* ------------------------------------------------------------------------
C35_ReusesAndReadsWriteNothing ==
    [][\A p \in Procs :
         ReadOnlyStep(p)
           => /\ store' = store
              /\ window' = window
              /\ calls'[p].reference # Undef => calls'[p].op = "record"
              /\ calls'[p].mode = Undef]_vars

\* a call has ended in reuse-active while the window of the rate guard holds
\* the earlier call
C35_Witness ==
    \E p \in Done("create") :
      /\ calls[p].ret.kind = "alreadyHasActive"
      /\ window # <<>>
      /\ calls[p].pre # {}

\* the scan of createVerificationSession has ended in caller p's call: an
\* attempt is returned, or the call has gone on to create
Decided(p) ==
    /\ calls[p].op = "create"
    /\ \/ calls[p].pc \in {"rateput", "fetch"}
       \/ /\ calls[p].pc = "done"
          /\ calls[p].ret.kind \in {"alreadyValidated", "alreadyHasActive"}

\* ------------------------------------------------------------------------
\* C36: where isUserValidated(u) and createVerificationSession for u have
\* read the same store, with no call writing meanwhile, and the store has
\* given both the same timeline, isUserValidated returns true exactly when
\* createVerificationSession returns alreadyValidated.
\* ------------------------------------------------------------------------
C36_ValidatedAgreesWithCreate ==
    \A p \in Procs, q \in Done("isValidated") :
      (/\ Decided(p)
       /\ calls[p].userId = calls[q].userId
       /\ calls[p].pre = store /\ calls[q].pre = store
       /\ calls[p].batch = calls[q].batch)
        => (calls[q].ret = Bool(TRUE) <=> calls[p].ret.kind = "alreadyValidated")

\* ------------------------------------------------------------------------
\* C37: when a signed callback for the reference a createVerificationSession
\* call has generated is stored (ok: true) before that call has written its
\* rows or while it writes them, then with both calls finished the status of
\* the reference's Meta Projection is the callback's event.
\* ------------------------------------------------------------------------
C37_CallbackOutlivesCreation ==
    \A p \in Done("create"), q \in Done("webhook") :
      (/\ calls[p].ret.kind = "created"
       /\ calls[q].ret.kind = "ok_true"
       /\ calls[q].reference = calls[p].reference)
        => MetaOf(store, calls[p].reference).status = calls[q].event

\* ------------------------------------------------------------------------
\* C38: when two signed callbacks for one reference are handled side by
\* side, their reads and writes interleaved, then with both finished the
\* status of the reference's Meta Projection is the event of the callback
\* whose timeline entry was written last.
\* ------------------------------------------------------------------------
C38_LastCallbackWins ==
    \A p \in Done("webhook"), q \in Done("webhook") :
      (/\ p # q
       /\ calls[p].ret.kind = "ok_true" /\ calls[q].ret.kind = "ok_true"
       /\ calls[p].reference = calls[q].reference)
        => \A e \in lastWritten :
             (e.reference = calls[p].reference /\ e.type = "webhook_event")
               => MetaOf(store, calls[p].reference).status = e.event

\* ------------------------------------------------------------------------
\* C39: once createVerificationSession has written the Meta Projection of a
\* reference with userId u, no step of a handleWebhook or updateRecordStatus
\* call for that reference, begun later or running at the same time,
\* changes the userId of that projection, and every timeline entry such a
\* step writes for the reference is in the partition user_u.
\* ------------------------------------------------------------------------
C39_ProjectionKeepsItsUser ==
    [][\A p \in Procs :
         LET c == calls[p]
             meta == MetaOf(store, c.reference)
         IN  (/\ c.op \in {"webhook", "update"}
              /\ calls'[p] # c
              /\ meta # NullRow /\ meta.userId \in Users
              /\ \E q \in Procs : /\ calls[q].op = "create"
                                   /\ calls[q].reference = c.reference
                                   /\ calls[q].userId = meta.userId)
               => /\ MetaOf(store', c.reference).userId = meta.userId
                  /\ \A r \in store' \ store :
                       (r.reference = c.reference /\ r.type # "meta")
                         => r.pk = UserPk(meta.userId)]_vars

\* ------------------------------------------------------------------------
\* C40: a handleWebhook or updateRecordStatus call for a reference leaves
\* every row of every other reference as it was: what it writes is indexed
\* under its own reference and replaces no row indexed under another.
\* ------------------------------------------------------------------------
C40_OtherReferencesUntouched ==
    \A p \in Done("webhook") \cup Done("update") :
      LET c == calls[p]
      IN  /\ \A r \in store \ c.pre : r.ppk = c.reference
          /\ \A r \in c.pre : r.ppk # c.reference => r \in store

====
